---- MODULE Spec2Model ----
(***************************************************************************)
(* Model of the exception bridge of julia-rs (src/api/exception.rs): the   *)
(* pending-fault register of the interpreter, its capture by               *)
(* Exception::catch, the classification of a fault object by its type      *)
(* name, throw/rethrow, and the family of fault-raising constructors; and  *)
(* of the command line and REPL (src/main.rs) that render captured faults  *)
(* and keep the answer history.                                            *)
(***************************************************************************)
EXTENDS Integers, Sequences, FiniteSets, TLC

\* Longest handle or index sequence handed to a bounds constructor.
MaxSeq == 2
\* Number of faults the interpreter sets while threads run catch() concurrently.
MaxFaults == 3
\* Most expressions (-e, -E) and files (-L) of one kind on the command line.
MaxArgs == 1
\* Most calls of set_history in one REPL session, and most of them that fail.
MaxCalls == 11
MaxSetFailures == 1

VARIABLES
    reg,        \* the interpreter's pending-fault register: a raw pointer, Null when Clear
    last,       \* what the last host operation was given, did and returned
    alive,      \* FALSE once the host thread has panicked
    pc,         \* concurrent threads: where each thread is inside catch()
    raw,        \* concurrent threads: the local `raw` of each thread's catch()
    nfaults,    \* concurrent threads: faults set so far
    returned,   \* concurrent threads: how often each fault was returned by a catch()
    dropped,    \* concurrent threads: the faults a catch() cleared and did not read, or did not return
    interleaved, \* concurrent threads: the register was touched between a catch()'s read and its clear
    held,       \* host code: the Exception it holds, with the Exception as it was constructed
    mainpc,     \* command line: where main() is
    todo,       \* command line: the options main() has still to process
    out,        \* command line: what the last step wrote for the user
    globals,    \* REPL: the bindings ans, ans1 .. ans9 of the interpreter's Main module
    hist        \* REPL: the calls of set_history so far and the result of the last one

vars == <<reg, last, alive, pc, raw, nfaults, returned, dropped, interleaved,
          held, mainpc, todo, out, globals, hist>>

(***************************************************************************)
(* Native values.  A C string carries its text and whether its bytes are   *)
(* valid UTF-8; a raw pointer is the address of an interpreter object      *)
(* together with the type name the runtime reports for it.                 *)
(***************************************************************************)
CStr(t) == [text |-> t, utf8 |-> TRUE]

NonUtf8 == [text |-> "?", utf8 |-> FALSE]

Obj(a, name) == [addr |-> a, ty |-> name]

Null == Obj(0, CStr(""))

is_null(p) == p.addr = 0

\* Host text: the characters and whether an interior NUL byte is among them.
Text(t) == [text |-> t, nul |-> FALSE]

TextNul(t) == [text |-> t, nul |-> TRUE]

\* Result<T>: Ok(v) or Err(e).
Ok(v) == [ok |-> TRUE, val |-> v, err |-> ""]

Err(e, v) == [ok |-> FALSE, val |-> v, err |-> e]

(***************************************************************************)
(* Handles (Ref, Datatype, Symbol): a raw pointer and its tracked validity.*)
(***************************************************************************)
RefNew(p) == [ptr |-> p, valid |-> TRUE]

Poisoned(r) == [ptr |-> r.ptr, valid |-> FALSE]

\* Ref::lock: the raw pointer, or HandleError for an invalidated handle.
lock(r) == IF r.valid THEN Ok(r.ptr) ELSE Err("HandleError", Null)

\* TryIntoString of the runtime's C string.
try_into_string(c) == IF c.utf8 THEN Ok(c.text) ELSE Err("StringError", "")

\* Ref::typename: lock the handle, read the reported type name, convert it.
typename(r) ==
    LET p == lock(r)
    IN  IF ~p.ok THEN Err(p.err, "") ELSE try_into_string(p.val.ty)

(***************************************************************************)
(* Exception::with_value: the 25-arm match on the type name.               *)
(***************************************************************************)
Variant(k, value) == [value |-> value, kind |-> k]

NoException == Variant("Unknown", Poisoned(RefNew(Null)))

with_value_lossy(value) ==
    LET typename_ == typename(value)
    IN  IF ~typename_.ok THEN Err(typename_.err, NoException)
        ELSE Ok(CASE typename_.val \in {"ArgumentError", "argumenterror", "ARGUMENTERROR"}
                          -> Variant("Argument", value)
                  [] typename_.val = "BoundsError" -> Variant("Bounds", value)
                  [] typename_.val = "EOFError" -> Variant("Error", value)
                  [] typename_.val = "ErrorException" -> Variant("EOF", value)
                  [] OTHER -> Variant("Unknown", value))

with_value(value) ==
    LET typename_ == typename(value)
    IN  IF ~typename_.ok THEN Err(typename_.err, NoException)
        ELSE Ok(CASE typename_.val = "ArgumentError" -> Variant("Argument", value)
                  [] typename_.val = "BoundsError" -> Variant("Bounds", value)
                  [] typename_.val = "CompositeException" -> Variant("Composite", value)
                  [] typename_.val = "DivideError" -> Variant("Divide", value)
                  [] typename_.val = "DomainError" -> Variant("Domain", value)
                  [] typename_.val = "EOFError" -> Variant("EOF", value)
                  [] typename_.val = "ErrorException" -> Variant("Error", value)
                  [] typename_.val = "InexactError" -> Variant("Inexact", value)
                  [] typename_.val = "InitError" -> Variant("Init", value)
                  [] typename_.val = "InterruptException" -> Variant("Interrupt", value)
                  [] typename_.val = "InvalidStateException" -> Variant("InvalidState", value)
                  [] typename_.val = "KeyError" -> Variant("Key", value)
                  [] typename_.val = "LoadError" -> Variant("Load", value)
                  [] typename_.val = "OutOfMemoryError" -> Variant("OutOfMemory", value)
                  [] typename_.val = "ReadOnlyMemoryError" -> Variant("ReadOnlyMemory", value)
                  [] typename_.val = "RemoteException" -> Variant("Remote", value)
                  [] typename_.val = "MethodError" -> Variant("Method", value)
                  [] typename_.val = "OverflowError" -> Variant("Overflow", value)
                  [] typename_.val = "ParseError" -> Variant("Parse", value)
                  [] typename_.val = "SystemError" -> Variant("System", value)
                  [] typename_.val = "TypeError" -> Variant("Type", value)
                  [] typename_.val = "UndefRefError" -> Variant("UndefRef", value)
                  [] typename_.val = "UndefVarError" -> Variant("UndefVar", value)
                  [] typename_.val = "UnicodeError" -> Variant("Unicode", value)
                  [] OTHER -> Variant("Unknown", value))

\* Exception::inner_ref: the wrapped handle, whatever the variant.
inner_ref(e) == e.value

\* Result::ok: Some(v) for Ok(v), None for Err.
ok(r) == IF r.ok THEN <<r.val>> ELSE <<>>

(***************************************************************************)
(* The interpreter's objects.  FaultObjs are the fault objects a foreign   *)
(* call (an evaluation) may leave in the register; ArgObjs are the values  *)
(* host code passes to the raise constructors.                             *)
(***************************************************************************)
FaultObjs ==
    { Obj(1, CStr("DivideError")), Obj(2, CStr("UndefVarError")),
      Obj(3, CStr("BoundsError")), Obj(4, CStr("MyError")), Obj(5, NonUtf8) }

ArgObjs == { Obj(7, CStr("DataType")), Obj(8, CStr("Symbol")) }

Handles(objs) == [ptr : objs, valid : BOOLEAN]

\* The Exceptions host code can hold: built by with_value from a fault object,
\* their handle possibly invalidated by the memory manager since.
Exceptions ==
    LET built == { with_value(RefNew(f)) : f \in FaultObjs }
    IN  UNION { { r.val, Variant(r.val.kind, Poisoned(r.val.value)) } : r \in { b \in built : b.ok } }

\* Host texts handed to the raise constructors: one of them holds a NUL.
Texts == { Text("f"), TextNul("f") }

\* A usize (64 bits) is written hi * 2^31 + lo with 0 <= lo < 2^31.
U(hi, lo) == [hi |-> hi, lo |-> lo]

\* Host counts: 0, 2, 2^31 - 1, 2^31 and 2^32 + 3.
Usizes == { U(0, 0), U(0, 2), U(0, 2147483647), U(1, 0), U(2, 3) }

Indices == { U(0, 1), U(0, 5) }

\* `n as i32`: the low 32 bits of n read as a two's complement number.
as_i32(n) == IF n.hi % 2 = 0 THEN n.lo ELSE (n.lo - 2147483647) - 1

SeqsUpTo(S, n) == UNION { [1..k -> S] : k \in 0..n }

(***************************************************************************)
(* The record of the last host operation: its inputs, the marshalling      *)
(* steps it attempted, the native entry points it invoked and what the     *)
(* caller received.                                                        *)
(***************************************************************************)
Call(fn, ptrs, strs, ints, n, i32) ==
    [n |-> n, fn |-> fn, ptrs |-> ptrs, strs |-> strs, ints |-> ints, i32 |-> i32]

Last(op, outcome, regBefore, ret, flag, str, texts, handles, ints, items, steps, calls) ==
    [ints |-> ints, op |-> op, outcome |-> outcome, regBefore |-> regBefore, ret |-> ret,
     flag |-> flag, str |-> str, texts |-> texts, handles |-> handles,
     items |-> items, steps |-> steps, calls |-> calls]

Probe(op, outcome, ret, flag, str, handles) ==
    Last(op, outcome, reg, ret, flag, str, <<>>, handles, <<>>, <<>>, 0, <<>>)

\* The command line of main(): -l/-S given, the number of -e, -E and -L
\* options, -i given, and main's local repl_default.
Args(dl, eval, print, load, repl, repl_default) ==
    [dl |-> dl, eval |-> eval, print |-> print, load |-> load, repl |-> repl,
     repl_default |-> repl_default]

NoArgs == Args(FALSE, 0, 0, 0, FALSE, TRUE)

\* The calls of set_history: how many, how many of them in a row returned Ok,
\* how many failed, and what the last step's call (if it made one) returned.
Hist(n, streak, fails, res) == [n |-> n, streak |-> streak, fails |-> fails, res |-> res]

\* The positions of ans, ans1 .. ans9.
Positions == 0..9

HostUnchanged == UNCHANGED <<held, mainpc, todo, out, globals, hist>>

ConcUnchanged == UNCHANGED <<pc, raw, nfaults, returned, dropped, interleaved>> /\ HostUnchanged

Threads == {1, 2}

\* The host side at rest: no Exception held, main() not running.
HostInit ==
    /\ held = <<>>
    /\ mainpc = "none"
    /\ todo = NoArgs
    /\ out = <<>>
    /\ globals = [k \in Positions |-> <<>>]
    /\ hist = Hist(0, 0, 0, <<>>)

ConcInit ==
    /\ pc = [t \in Threads |-> "idle"]
    /\ raw = [t \in Threads |-> Null]
    /\ nfaults = 0
    /\ returned = [f \in 1..MaxFaults |-> 0]
    /\ dropped = {}
    /\ interleaved = FALSE

Init ==
    /\ reg = Null
    /\ last = Last("init", "Ok", Null, <<>>, FALSE, "", <<>>, <<>>, <<>>, <<>>, 0, <<>>)
    /\ alive = TRUE
    /\ ConcInit
    /\ HostInit

(***************************************************************************)
(* The fault-capture protocol.                                             *)
(***************************************************************************)
\* The interpreter sets a fault as the side effect of a foreign call.
SetFault(f) ==
    /\ alive
    /\ reg' = f
    /\ last' = Probe("fault", "Ok", <<>>, FALSE, "", <<>>)
    /\ UNCHANGED alive
    /\ ConcUnchanged

\* jl_exception_occurred(): the register's content.
jl_exception_occurred == reg

\* Exception::occurred written as catch().is_some().
occurred_by_catch ==
    /\ alive
    /\ reg' = Null
    /\ last' = Probe("occurred", "Ok", <<>>, ~is_null(jl_exception_occurred), "", <<>>)
    /\ UNCHANGED alive
    /\ ConcUnchanged

\* Exception::occurred.
occurred ==
    /\ alive
    /\ last' = Probe("occurred", "Ok", <<>>, ~is_null(jl_exception_occurred), "", <<>>)
    /\ UNCHANGED <<reg, alive>>
    /\ ConcUnchanged

\* Exception::catch without the test for a null `raw`.
catch_unchecked ==
    LET raw_ == jl_exception_occurred
        ret == ok(with_value(RefNew(raw_)))
    IN  /\ alive
        /\ reg' = Null
        /\ last' = Probe("catch", "Ok", ret, FALSE, "", <<>>)
        /\ UNCHANGED alive
        /\ ConcUnchanged

\* Exception::catch clearing the register only of what it captured.
catch_keep ==
    LET raw_ == jl_exception_occurred
        ret == IF is_null(raw_) THEN <<>> ELSE ok(with_value(RefNew(raw_)))
    IN  /\ alive
        /\ reg' = IF ret = <<>> THEN reg ELSE Null
        /\ last' = Probe("catch", "Ok", ret, FALSE, "", <<>>)
        /\ UNCHANGED alive
        /\ ConcUnchanged

\* Exception::catch.
catch ==
    LET raw_ == jl_exception_occurred
        ret == IF is_null(raw_) THEN <<>> ELSE ok(with_value(RefNew(raw_)))
    IN  /\ alive
        /\ reg' = Null
        /\ last' = Probe("catch", "Ok", ret, FALSE, "", <<>>)
        /\ UNCHANGED alive
        /\ ConcUnchanged

\* Exception::with_value called by the host on a handle of its own.
WithValue(value) ==
    LET r == with_value(value)
    IN  /\ alive
        /\ last' = Probe("with_value", IF r.ok THEN "Ok" ELSE r.err, ok(r), FALSE, "", <<value>>)
        /\ UNCHANGED <<reg, alive>>
        /\ ConcUnchanged

\* The description table of impl error::Error for Exception.
description_of(kind) ==
    CASE kind = "Argument" -> "the parameters to a function call do not match a valid signature"
      [] kind = "Bounds" -> "attempt to access index out-of-bounds"
      [] kind = "Composite" -> "composite exception"
      [] kind = "Divide" -> "divide by zero"
      [] kind = "Domain" -> "the argument is outside of the valid domain"
      [] kind = "EOF" -> "no more data is available from file or stream"
      [] kind = "Error" -> "generic error occurred"
      [] kind = "Inexact" -> "type conversion cannot be done exactly"
      [] kind = "Init" -> "an error occurred when running a module's __init__ "
      [] kind = "Interrupt" -> "the process was stopped by a terminal interrupt (^C)"
      [] kind = "InvalidState" -> "the program reached an invalid exception"
      [] kind = "Key" -> "key doesn't exist in Associative- or Set-like object"
      [] kind = "Load" -> "an error occurred while include-ing, require-ing or using a file"
      [] kind = "OutOfMemory" -> "operation allocated too much memory"
      [] kind = "ReadOnlyMemory" -> "operation tried to write to read-only memory"
      [] kind = "Remote" -> "remote exception occurred"
      [] kind = "Method" -> "method with the required type signature doesn't exist"
      [] kind = "Overflow" -> "the result of an expression is too large"
      [] kind = "Parse" -> "the expression couldn't be parsed as a valid Julia expression"
      [] kind = "System" -> "system call failed"
      [] kind = "Type" -> "type assertion failed"
      [] kind = "UndefRef" -> "the item or field is not defined"
      [] kind = "UndefVar" -> "symbol is not defined in current scope"
      [] kind = "Unicode" -> "byte array does not represent a valid unicode string"
      [] OTHER -> "unknown exception"

\* description() looking the kind up again through the wrapped handle.
description_by_typename(self) ==
    LET again == with_value(inner_ref(self))
        str == IF again.ok THEN description_of(again.val.kind) ELSE ""
    IN  /\ alive
        /\ last' = Last("description", "Ok", reg, <<>>, FALSE, str, <<>>, <<inner_ref(self)>>,
                        <<>>, <<self>>, 0, <<>>)
        /\ UNCHANGED <<reg, alive>>
        /\ ConcUnchanged

\* <Exception as error::Error>::description; `items` records self.
description(self) ==
    /\ alive
    /\ last' = Last("description", "Ok", reg, <<>>, FALSE, description_of(self.kind), <<>>,
                    <<inner_ref(self)>>, <<>>, <<self>>, 0, <<>>)
    /\ UNCHANGED <<reg, alive>>
    /\ ConcUnchanged

\* <Exception as fmt::Debug>::fmt: the type name read through the handle.
fmt_debug(self) ==
    LET typename_ == typename(inner_ref(self))
    IN  IF typename_.ok THEN Ok(typename_.val) ELSE Err("fmt::Error", "")

Debug(self) ==
    LET r == fmt_debug(self)
    IN  /\ alive
        /\ last' = Probe("debug", IF r.ok THEN "Ok" ELSE r.err, <<>>, FALSE, r.val, <<inner_ref(self)>>)
        /\ UNCHANGED <<reg, alive>>
        /\ ConcUnchanged

\* <Exception as fmt::Display>::fmt: fmt::Debug::fmt(self, f).
Display(self) ==
    LET r == fmt_debug(self)
    IN  /\ alive
        /\ last' = Probe("display", IF r.ok THEN "Ok" ELSE r.err, <<>>, FALSE, r.val, <<inner_ref(self)>>)
        /\ UNCHANGED <<reg, alive>>
        /\ ConcUnchanged

(***************************************************************************)
(* Marshalling.  A constructor's arguments are marshalled one after the    *)
(* other in the order of its statements: a text by into_cstring, a handle  *)
(* by lock()?.                                                             *)
(***************************************************************************)
TItem(t) == [t |-> t, kind |-> "text", h |-> Poisoned(RefNew(Null))]

HItem(h) == [t |-> Text(""), kind |-> "handle", h |-> h]

HItems(hs) == [i \in 1..Len(hs) |-> HItem(hs[i])]

\* IntoCString::into_cstring: a CString, which cannot hold an interior NUL;
\* the conversion returns no Result, so its failure is a panic.
into_cstring(t) == IF t.nul THEN Err("Panic", CStr("")) ELSE Ok(CStr(t.text))

Marshalled(status, n, ptrs, strs, items) ==
    [n |-> n, ptrs |-> ptrs, strs |-> strs, items |-> items, status |-> status]

RECURSIVE marshal_from(_, _, _, _)
marshal_from(items, i, ptrs, strs) ==
    IF i > Len(items) THEN Marshalled("Ok", Len(items), ptrs, strs, items)
    ELSE IF items[i].kind = "text"
         THEN LET c == into_cstring(items[i].t)
              IN  IF c.ok THEN marshal_from(items, i + 1, ptrs, Append(strs, c.val))
                  ELSE Marshalled(c.err, i, ptrs, strs, items)
         ELSE LET p == lock(items[i].h)
              IN  IF p.ok THEN marshal_from(items, i + 1, Append(ptrs, p.val), strs)
                  ELSE Marshalled(p.err, i, ptrs, strs, items)

marshal(items) == marshal_from(items, 1, <<>>, <<>>)

(***************************************************************************)
(* The native fault-raising entry points.  Each builds (or is given) the   *)
(* fault object, stores it in the register and unwinds into the            *)
(* interpreter: it does not return to its caller.                          *)
(***************************************************************************)
InstanceName(ty) == IF ty.addr = 7 THEN "KeyError" ELSE "MyError"

\* A fault object made by an entry point is a fresh allocation, here at address 9.
Raised(name) == Obj(9, CStr(name))

FaultOf(call) ==
    CASE call.fn \in {"jl_throw", "jl_rethrow_other"} -> call.ptrs[1]
      [] call.fn = "jl_error" -> Raised("ErrorException")
      [] call.fn = "jl_exceptionf" -> Raised(InstanceName(call.ptrs[1]))
      [] call.fn \in {"jl_too_few_args", "jl_too_many_args"}
            -> Raised("ArgumentError")
      [] call.fn \in {"jl_type_error", "jl_type_error_rt"} -> Raised("TypeError")
      [] call.fn = "jl_undefined_var_error" -> Raised("UndefVarError")
      [] call.fn = "jl_eof_error" -> Raised("EOFError")
      [] OTHER -> Raised("BoundsError")

native(call) == [returns |-> FALSE, reg |-> FaultOf(call)]

(***************************************************************************)
(* The common shape of throw, rethrow and the raise constructors: marshal  *)
(* the arguments, and only then make the one native call.                  *)
(***************************************************************************)
Finish(op, m, call, texts, handles, ints) ==
    LET n == native(call)
    IN  /\ alive
        /\ IF m.status = "Ok"
           THEN /\ reg' = n.reg
                /\ last' = Last(op, IF n.returns THEN "Ok" ELSE "NoReturn", reg, <<>>,
                                FALSE, "", texts, handles, ints, m.items, m.n, <<call>>)
           ELSE /\ reg' = reg
                /\ last' = Last(op, m.status, reg, <<>>, FALSE, "", texts, handles, ints,
                                m.items, m.n, <<>>)
        /\ alive' = (m.status # "Panic")
        /\ ConcUnchanged

\* Exception::throw.
throw(self) ==
    LET m == marshal(<<HItem(inner_ref(self))>>)
    IN  Finish("throw", m, Call("jl_throw", m.ptrs, <<>>, <<>>, 0, 0),
               <<>>, <<inner_ref(self)>>, <<>>)

\* Exception::rethrow raising afresh, as throw does.
rethrow_as_throw(self) ==
    LET m == marshal(<<HItem(inner_ref(self))>>)
    IN  Finish("rethrow", m, Call("jl_throw", m.ptrs, <<>>, <<>>, 0, 0),
               <<>>, <<inner_ref(self)>>, <<>>)

\* Exception::rethrow.
rethrow(self) ==
    LET m == marshal(<<HItem(inner_ref(self))>>)
    IN  Finish("rethrow", m, Call("jl_rethrow_other", m.ptrs, <<>>, <<>>, 0, 0),
               <<>>, <<inner_ref(self)>>, <<>>)

(***************************************************************************)
(* The raise constructors.                                                 *)
(***************************************************************************)
error(string) ==
    LET m == marshal(<<TItem(string)>>)
    IN  Finish("error", m, Call("jl_error", <<>>, m.strs, <<>>, 0, 0),
               <<string>>, <<>>, <<>>)

\* error_format: the formatted text is converted, then handed to error().
error_format(formatted) ==
    LET m == marshal(<<TItem(formatted)>>)
    IN  Finish("error_format", m, Call("jl_error", <<>>, m.strs, <<>>, 0, 0),
               <<formatted>>, <<>>, <<>>)

exception(ty, string) ==
    LET m == marshal(<<HItem(ty), TItem(string)>>)
    IN  Finish("exception", m, Call("jl_exceptionf", m.ptrs, m.strs, <<>>, 0, 0),
               <<string>>, <<ty>>, <<>>)

\* exception_format: the formatted text is converted while the arguments of
\* exception() are evaluated, before exception() locks ty.
exception_format(ty, formatted) ==
    LET m == marshal(<<TItem(formatted), HItem(ty)>>)
    IN  Finish("exception_format", m, Call("jl_exceptionf", m.ptrs, m.strs, <<>>, 0, 0),
               <<formatted>>, <<ty>>, <<>>)

too_few_args(fname, min) ==
    LET m == marshal(<<TItem(fname)>>)
    IN  Finish("too_few_args", m, Call("jl_too_few_args", <<>>, m.strs, <<>>, 0, as_i32(min)),
               <<fname>>, <<>>, <<min>>)

too_many_args(fname, max) ==
    LET m == marshal(<<TItem(fname)>>)
    IN  Finish("too_many_args", m,
               Call("jl_too_many_args", <<>>, m.strs, <<>>, 0, as_i32(max)),
               <<fname>>, <<>>, <<max>>)

type_error(fname, expected, got) ==
    LET m == marshal(<<TItem(fname), HItem(expected), HItem(got)>>)
    IN  Finish("type_error", m, Call("jl_type_error", m.ptrs, m.strs, <<>>, 0, 0),
               <<fname>>, <<expected, got>>, <<>>)

type_error_rt(fname, context, ty, got) ==
    LET m == marshal(<<TItem(fname), TItem(context), HItem(ty), HItem(got)>>)
    IN  Finish("type_error_rt", m, Call("jl_type_error_rt", m.ptrs, m.strs, <<>>, 0, 0),
               <<fname, context>>, <<ty, got>>, <<>>)

undefined_var_error(var) ==
    LET m == marshal(<<HItem(var)>>)
    IN  Finish("undefined_var_error", m,
               Call("jl_undefined_var_error", m.ptrs, <<>>, <<>>, 0, 0),
               <<>>, <<var>>, <<>>)

bounds_error(v, idx) ==
    LET m == marshal(<<HItem(v), HItem(idx)>>)
    IN  Finish("bounds_error", m, Call("jl_bounds_error", m.ptrs, <<>>, <<>>, 0, 0),
               <<>>, <<v, idx>>, <<>>)

\* bounds_error_v leaving out the indices whose lock fails.
bounds_error_v_skipping(v, idxs) ==
    LET live == SelectSeq(idxs, LAMBDA i : lock(i).ok)
        m == marshal(<<HItem(v)>> \o HItems(live))
    IN  Finish("bounds_error_v", m,
               Call("jl_bounds_error_v", m.ptrs, <<>>, <<>>, Len(m.ptrs) - 1, 0),
               <<>>, <<v>> \o idxs, <<>>)

\* bounds_error_v: v, then every index in turn, pushed onto `indices`.
bounds_error_v(v, idxs) ==
    LET m == marshal(<<HItem(v)>> \o HItems(idxs))
    IN  Finish("bounds_error_v", m,
               Call("jl_bounds_error_v", m.ptrs, <<>>, <<>>, Len(m.ptrs) - 1, 0),
               <<>>, <<v>> \o idxs, <<>>)

bounds_error_int(v, i) ==
    LET m == marshal(<<HItem(v)>>)
    IN  Finish("bounds_error_int", m, Call("jl_bounds_error_int", m.ptrs, <<>>, <<i>>, 0, 0),
               <<>>, <<v>>, <<i>>)

bounds_error_tuple_int(v, i) ==
    LET m == marshal(HItems(v))
    IN  Finish("bounds_error_tuple_int", m,
               Call("jl_bounds_error_tuple_int", m.ptrs, <<>>, <<i>>, Len(m.ptrs), 0),
               <<>>, v, <<i>>)

bounds_error_ints(v, idxs) ==
    LET m == marshal(<<HItem(v)>>)
    IN  Finish("bounds_error_ints", m,
               Call("jl_bounds_error_ints", m.ptrs, <<>>, idxs, Len(idxs), 0),
               <<>>, <<v>>, idxs)

eof_error ==
    LET m == marshal(<<>>)
    IN  Finish("eof_error", m, Call("jl_eof_error", <<>>, <<>>, <<>>, 0, 0),
               <<>>, <<>>, <<>>)

(***************************************************************************)
(* The serialized bridge: every operation runs to its end before the next. *)
(***************************************************************************)
ArgHandles == Handles(ArgObjs)

Next ==
    \/ \E f \in FaultObjs : SetFault(f)
    \/ occurred
    \/ catch
    \/ \E value \in Handles(FaultObjs) : WithValue(value)
    \/ \E self \in Exceptions : description(self)
    \/ \E self \in Exceptions : Debug(self)
    \/ \E self \in Exceptions : Display(self)
    \/ \E self \in Exceptions : throw(self)
    \/ \E self \in Exceptions : rethrow(self)
    \/ \E t \in Texts : error(t)
    \/ \E t \in Texts : error_format(t)
    \/ \E ty \in ArgHandles, t \in Texts : exception(ty, t)
    \/ \E ty \in ArgHandles, t \in Texts : exception_format(ty, t)
    \/ \E t \in Texts, n \in Usizes : too_few_args(t, n)
    \/ \E t \in Texts, n \in Usizes : too_many_args(t, n)
    \/ \E t \in Texts, a, b \in ArgHandles : type_error(t, a, b)
    \/ \E t, c \in Texts, a, b \in ArgHandles : type_error_rt(t, c, a, b)
    \/ \E a \in ArgHandles : undefined_var_error(a)
    \/ \E a, b \in ArgHandles : bounds_error(a, b)
    \/ \E a \in ArgHandles, idxs \in SeqsUpTo(ArgHandles, MaxSeq) : bounds_error_v(a, idxs)
    \/ \E a \in ArgHandles, i \in Indices : bounds_error_int(a, i)
    \/ \E v \in SeqsUpTo(ArgHandles, MaxSeq), i \in Indices : bounds_error_tuple_int(v, i)
    \/ \E a \in ArgHandles, idxs \in SeqsUpTo(Indices, MaxSeq) : bounds_error_ints(a, idxs)
    \/ eof_error

Spec == Init /\ [][Next]_vars

(***************************************************************************)
(* Exception::with_value as a function of its input: the handle is drawn   *)
(* from handles to objects of every type name below, valid or invalidated. *)
(***************************************************************************)
KnownNames ==
    << "ArgumentError", "BoundsError", "CompositeException", "DivideError", "DomainError",
       "EOFError", "ErrorException", "InexactError", "InitError", "InterruptException",
       "InvalidStateException", "KeyError", "LoadError", "OutOfMemoryError",
       "ReadOnlyMemoryError", "RemoteException", "MethodError", "OverflowError",
       "ParseError", "SystemError", "TypeError", "UndefRefError", "UndefVarError",
       "UnicodeError" >>

KnownKinds ==
    << "Argument", "Bounds", "Composite", "Divide", "Domain", "EOF", "Error", "Inexact",
       "Init", "Interrupt", "InvalidState", "Key", "Load", "OutOfMemory", "ReadOnlyMemory",
       "Remote", "Method", "Overflow", "Parse", "System", "Type", "UndefRef", "UndefVar",
       "Unicode" >>

OtherNames ==
    { "argumenterror", "ARGUMENTERROR", "Argument", "ArgumentError ", "EOFerror",
      "Exception", "MyError", "" }

ClassifyObjs ==
    { Obj(a, CStr(n)) : a \in {21, 22},
                        n \in { KnownNames[i] : i \in 1..Len(KnownNames) } \cup OtherNames }
        \cup { Obj(23, NonUtf8) }

InitClassify ==
    /\ reg = Null
    /\ \E value \in Handles(ClassifyObjs) :
          last = Last("input", "Ok", Null, <<>>, FALSE, "", <<>>, <<value>>, <<>>, <<>>, 0, <<>>)
    /\ alive = TRUE
    /\ ConcInit
    /\ HostInit

Classify ==
    /\ last.op = "input"
    /\ WithValue(last.handles[1])

SpecClassify == InitClassify /\ [][Classify]_vars

(***************************************************************************)
(* description() as a function of the Exception it is called on: one       *)
(* Exception of every kind, on two fault objects each, its handle valid or *)
(* invalidated, while faults come and go in the register.                  *)
(***************************************************************************)
DescribeExceptions ==
    LET built == { with_value(RefNew(f)) : f \in ClassifyObjs }
    IN  UNION { { r.val, Variant(r.val.kind, Poisoned(r.val.value)) } : r \in { b \in built : b.ok } }

NextDescribe ==
    \/ \E f \in FaultObjs : SetFault(f)
    \/ catch
    \/ \E self \in DescribeExceptions : description(self)

SpecDescribe == Init /\ [][NextDescribe]_vars

(***************************************************************************)
(* An Exception in the hands of host code.  `held` is the Exception and,   *)
(* beside it, the Exception as with_value returned it.  The host borrows   *)
(* it, clones it, throws it and renders it; inner_mut hands out `&mut Ref`,*)
(* through which the caller may store another handle; and the memory       *)
(* manager may invalidate the wrapped handle.                              *)
(***************************************************************************)
HeldUnchanged == UNCHANGED <<mainpc, todo, out, globals, hist>>

\* #[derive(Clone)]: the same variant around a clone of the handle.
clone(e) == Variant(e.kind, [ptr |-> inner_ref(e).ptr, valid |-> inner_ref(e).valid])

\* Exception::inner_mut followed by the caller's store of w through the
\* `&mut Ref` it returned: the variant stays, the wrapped handle is w.
inner_mut(e, w) == Variant(e.kind, w)

HeldWithValue(value) ==
    LET r == with_value(value)
    IN  /\ alive
        /\ r.ok
        /\ held' = <<r.val, r.val>>
        /\ last' = Probe("with_value", "Ok", ok(r), FALSE, "", <<value>>)
        /\ UNCHANGED <<reg, alive>>
        /\ UNCHANGED <<pc, raw, nfaults, returned, dropped, interleaved>>
        /\ HeldUnchanged

HeldInnerRef ==
    /\ alive
    /\ held # <<>>
    /\ last' = Probe("inner_ref", "Ok", <<>>, FALSE, "", <<inner_ref(held[1])>>)
    /\ UNCHANGED <<reg, alive, held>>
    /\ UNCHANGED <<pc, raw, nfaults, returned, dropped, interleaved>>
    /\ HeldUnchanged

HeldInnerMut(w) ==
    /\ alive
    /\ held # <<>>
    /\ held' = <<inner_mut(held[1], w), held[2]>>
    /\ last' = Probe("inner_mut", "Ok", <<>>, FALSE, "", <<w>>)
    /\ UNCHANGED <<reg, alive>>
    /\ UNCHANGED <<pc, raw, nfaults, returned, dropped, interleaved>>
    /\ HeldUnchanged

HeldClone ==
    /\ alive
    /\ held # <<>>
    /\ held' = <<clone(held[1]), held[2]>>
    /\ last' = Probe("clone", "Ok", <<clone(held[1])>>, FALSE, "", <<inner_ref(held[1])>>)
    /\ UNCHANGED <<reg, alive>>
    /\ UNCHANGED <<pc, raw, nfaults, returned, dropped, interleaved>>
    /\ HeldUnchanged

\* The interpreter's memory manager invalidates the value the handle tracks.
HeldInvalidate ==
    /\ alive
    /\ held # <<>>
    /\ inner_ref(held[1]).valid
    /\ held' = <<Variant(held[1].kind, Poisoned(inner_ref(held[1]))), held[2]>>
    /\ last' = Probe("invalidate", "Ok", <<>>, FALSE, "", <<inner_ref(held[1])>>)
    /\ UNCHANGED <<reg, alive>>
    /\ UNCHANGED <<pc, raw, nfaults, returned, dropped, interleaved>>
    /\ HeldUnchanged

NextHeld ==
    \/ \E value \in Handles(FaultObjs) : HeldWithValue(value)
    \/ HeldInnerRef
    \/ \E w \in Handles(FaultObjs) : HeldInnerMut(w)
    \/ HeldClone
    \/ HeldInvalidate
    \/ held # <<>> /\ throw(held[1])
    \/ held # <<>> /\ rethrow(held[1])
    \/ held # <<>> /\ Debug(held[1])
    \/ held # <<>> /\ Display(held[1])
    \/ catch

SpecHeld == Init /\ [][NextHeld]_vars

(***************************************************************************)
(* The command line and REPL of main.rs.  Julia::eval_string and           *)
(* Julia::load hand main.rs a Result: a value (possibly `nothing`), the    *)
(* Exception that catch() captured after the foreign call, or another      *)
(* error of the host.                                                      *)
(***************************************************************************)
ApiResult(kind, nothing_, ex) == [kind |-> kind, ex |-> ex, nothing |-> nothing_]

\* The Exceptions catch() returns for the faults an evaluation can leave.
CaughtExceptions ==
    LET built == { with_value(RefNew(f)) : f \in FaultObjs }
    IN  { r.val : r \in { b \in built : b.ok } }

ApiResults ==
    { ApiResult("Ok", n, NoException) : n \in BOOLEAN }
        \cup { ApiResult("UnhandledException", TRUE, e) : e \in CaughtExceptions }
        \cup { ApiResult("Error", TRUE, NoException) }

\* What a step wrote for the user: lines <<tag, text, detail>>, or a panic.
Written(panic, lines) == [panic |-> panic, lines |-> lines]

\* errprintln!("Exception: {}", ex): Exception has no cause(); the message is
\* "Exception: {Display}\n > {description}", and a failed write! is a panic
\* (`err.expect`).
errprintln_exception(e) ==
    LET shown == fmt_debug(e)
    IN  IF shown.ok THEN Written(FALSE, << <<"Exception", shown.val, description_of(e.kind)>> >>)
        ELSE Written(TRUE, << <<"panic", "Couldn't write error", "">> >>)

\* errprintln!("Error: {}", err) for the other errors of the host.
errprintln_error == Written(FALSE, << <<"Error", "", "">> >>)

\* Result::expect(msg) on the Result of Julia::load.
expect(r, msg) ==
    IF r.kind = "Ok" THEN Written(FALSE, <<>>) ELSE Written(TRUE, << <<"panic", msg, "">> >>)

Evaluated(ret, w) == [panic |-> w.panic, lines |-> w.lines, ret |-> ret]

\* main.rs eval_string: Some(ret) for a value that is not `nothing`.
eval_string(r) ==
    CASE r.kind = "Ok" -> Evaluated(~r.nothing, Written(FALSE, <<>>))
      [] r.kind = "UnhandledException" -> Evaluated(FALSE, errprintln_exception(r.ex))
      [] OTHER -> Evaluated(FALSE, errprintln_error)

(***************************************************************************)
(* The answer history.  A binding of Main is <<>> when unset and <<v>> when *)
(* bound to v; the value 0 is `nothing`, and the n-th value handed to       *)
(* set_history is n.                                                        *)
(***************************************************************************)
nothing == 0

\* Module::global(name): the bound value, or an error for an unset global.
global(g, k) == IF g[k] = <<>> THEN Err("Error", nothing) ELSE Ok(g[k][1])

unwrap_or_else(r, default) == IF r.ok THEN r.val ELSE default

SetResult(g, res) == [globals |-> g, res |-> res]

\* The ten `jl.main().set(name, value).map_err(|_| i)?` in turn; the set at
\* position failAt fails (none does when failAt = 10).
RECURSIVE set_from(_, _, _, _)
set_from(g, vals, i, failAt) ==
    IF i > 9 THEN SetResult(g, Ok(0))
    ELSE IF i = failAt THEN SetResult(g, Err("usize", i))
    ELSE set_from([g EXCEPT ![i] = <<vals[i]>>], vals, i + 1, failAt)

\* set_history reading each global when it is about to bind the next one.
set_history_reading_late(g, ret, failAt) ==
    set_from(g, [k \in Positions |-> ret], 0, failAt)

\* set_history: ans .. ans8 are read first, then ans .. ans9 are bound.
set_history(g, ret, failAt) ==
    LET ans == [k \in 0..8 |-> unwrap_or_else(global(g, k), nothing)]
    IN  set_from(g, [k \in Positions |-> IF k = 0 THEN ret ELSE ans[k - 1]], 0, failAt)

\* What main() turns to next: the first kind of option still to process, then
\* the REPL if -i was given or no -e, -E, -L was.
Phase(t) ==
    IF t.eval > 0 THEN "eval"
    ELSE IF t.print > 0 THEN "print"
    ELSE IF t.load > 0 THEN "load"
    ELSE IF t.repl \/ t.repl_default THEN "initrepl"
    ELSE "exit"

CliUnchanged ==
    UNCHANGED <<reg, held, pc, raw, nfaults, returned, dropped, interleaved>>

CliStep(op, r, ret) ==
    Last(op, r.kind, reg, ret, FALSE, "", <<>>, <<>>, <<>>, <<r>>, 0, <<>>)

InitCli ==
    /\ reg = Null
    /\ last = Last("init", "Ok", Null, <<>>, FALSE, "", <<>>, <<>>, <<>>, <<>>, 0, <<>>)
    /\ alive = TRUE
    /\ ConcInit
    /\ held = <<>>
    /\ mainpc = "dlinclude"
    /\ todo \in { Args(dl, e, p, l, i, TRUE) :
                    dl \in BOOLEAN, e \in 0..MaxArgs, p \in 0..MaxArgs, l \in 0..MaxArgs,
                    i \in BOOLEAN }
    /\ out = <<>>
    /\ globals = [k \in Positions |-> <<>>]
    /\ hist = Hist(0, 0, 0, <<>>)

\* if !dlinclude.is_empty() { jl.load(..).expect("Could not load dlinclude.jl") }
MainDlinclude(r) ==
    LET w == IF todo.dl THEN expect(r, "Could not load dlinclude.jl") ELSE Written(FALSE, <<>>)
        called == IF todo.dl THEN r ELSE ApiResult("NoCall", TRUE, NoException)
    IN  /\ alive
        /\ mainpc = "dlinclude"
        /\ last' = CliStep("dlinclude", called, <<>>)
        /\ out' = w.lines
        /\ alive' = ~w.panic
        /\ todo' = [todo EXCEPT !.dl = FALSE]
        /\ mainpc' = IF w.panic THEN mainpc ELSE Phase(todo')
        /\ UNCHANGED <<globals, hist>>
        /\ CliUnchanged

\* for expr in eval { eval_string(&mut jl, expr); }
MainEval(r) ==
    LET e == eval_string(r)
    IN  /\ alive
        /\ mainpc = "eval"
        /\ last' = CliStep("eval", r, IF e.ret THEN <<nothing>> ELSE <<>>)
        /\ out' = e.lines
        /\ alive' = ~e.panic
        /\ todo' = [todo EXCEPT !.eval = @ - 1, !.repl_default = FALSE]
        /\ mainpc' = IF e.panic THEN mainpc ELSE Phase(todo')
        /\ UNCHANGED <<globals, hist>>
        /\ CliUnchanged

\* for expr in print { if let Some(string) = eval_string(..) { println!(..) } }
MainPrint(r) ==
    LET e == eval_string(r)
    IN  /\ alive
        /\ mainpc = "print"
        /\ last' = CliStep("print", r, IF e.ret THEN <<nothing>> ELSE <<>>)
        /\ out' = e.lines \o (IF e.ret THEN << <<"value", "", "">> >> ELSE <<>>)
        /\ alive' = ~e.panic
        /\ todo' = [todo EXCEPT !.print = @ - 1, !.repl_default = FALSE]
        /\ mainpc' = IF e.panic THEN mainpc ELSE Phase(todo')
        /\ UNCHANGED <<globals, hist>>
        /\ CliUnchanged

\* for filename in load { File::open, then match jl.load(..) }
MainLoad(opens, r) ==
    LET w == CASE ~opens -> Written(FALSE, << <<"Error", "couldn't open file", "">> >>)
               [] opens /\ r.kind = "UnhandledException" -> errprintln_exception(r.ex)
               [] opens /\ r.kind = "Error" -> errprintln_error
               [] OTHER -> Written(FALSE, <<>>)
        called == IF opens THEN r ELSE ApiResult("NoCall", TRUE, NoException)
    IN  /\ alive
        /\ mainpc = "load"
        /\ last' = CliStep("load", called, <<>>)
        /\ out' = w.lines
        /\ alive' = ~w.panic
        /\ todo' = [todo EXCEPT !.load = @ - 1, !.repl_default = FALSE]
        /\ mainpc' = IF w.panic THEN mainpc ELSE Phase(todo')
        /\ UNCHANGED <<globals, hist>>
        /\ CliUnchanged

\* if repl { jl.load(INITREPL_JL).expect("Could not load initrepl.jl"); interactive(..) }
MainInitrepl(r) ==
    LET w == expect(r, "Could not load initrepl.jl")
    IN  /\ alive
        /\ mainpc = "initrepl"
        /\ last' = CliStep("initrepl", r, <<>>)
        /\ out' = w.lines
        /\ alive' = ~w.panic
        /\ todo' = NoArgs
        /\ mainpc' = IF w.panic THEN mainpc ELSE "interactive"
        /\ UNCHANGED <<globals, hist>>
        /\ CliUnchanged

\* One turn of the loop of interactive() that evaluates nothing: an empty or
\* interrupted line (continue), a read error (eprintln, continue), or the end
\* of input (break, then the history is committed).
ReplNoEval(line) ==
    /\ alive
    /\ mainpc = "interactive"
    /\ last' = CliStep("repl", ApiResult("NoCall", TRUE, NoException), <<>>)
    /\ out' = IF line = "error" THEN << <<"Error", "read_line", "">> >> ELSE <<>>
    /\ mainpc' = IF line = "eof" THEN "exit" ELSE mainpc
    /\ hist' = [hist EXCEPT !.res = <<>>]
    /\ UNCHANGED <<alive, todo, globals>>
    /\ CliUnchanged

\* con.history.push(line): a failed write is reported and the loop goes on.
pushed(fails) ==
    IF fails THEN << <<"Error", "could not write line to history file", "">> >> ELSE <<>>

\* One turn of the loop on a line whose evaluation gives no value to show.
ReplEval(r, pushFails) ==
    LET e == eval_string(r)
    IN  /\ alive
        /\ mainpc = "interactive"
        /\ ~e.ret
        /\ last' = CliStep("repl", r, <<>>)
        /\ out' = e.lines \o (IF e.panic THEN <<>> ELSE pushed(pushFails))
        /\ alive' = ~e.panic
        /\ hist' = [hist EXCEPT !.res = <<>>]
        /\ UNCHANGED <<mainpc, todo, globals>>
        /\ CliUnchanged

\* One turn of the loop on a line that evaluates to a value: the value is
\* printed and set_history is called on it.
ReplAnswer(r, failAt, pushFails) ==
    LET e == eval_string(r)
        ret == hist.n + 1
        h == set_history(globals, ret, failAt)
        warning == IF h.res.ok THEN <<>>
                   ELSE << <<"Warning", "couldn't set answer history", "">> >>
    IN  /\ alive
        /\ mainpc = "interactive"
        /\ e.ret
        /\ hist.n < MaxCalls
        /\ ~h.res.ok => hist.fails < MaxSetFailures
        /\ last' = CliStep("repl", r, <<ret>>)
        /\ out' = << <<"value", "", "">> >> \o warning \o pushed(pushFails)
        /\ globals' = h.globals
        /\ hist' = Hist(hist.n + 1, IF h.res.ok THEN hist.streak + 1 ELSE 0,
                        hist.fails + (IF h.res.ok THEN 0 ELSE 1), <<h.res>>)
        /\ UNCHANGED <<alive, mainpc, todo>>
        /\ CliUnchanged

NextCli ==
    \/ \E r \in ApiResults : MainDlinclude(r)
    \/ \E r \in ApiResults : MainEval(r)
    \/ \E r \in ApiResults : MainPrint(r)
    \/ \E opens \in BOOLEAN, r \in ApiResults : MainLoad(opens, r)
    \/ \E r \in ApiResults : MainInitrepl(r)
    \/ \E line \in {"empty", "interrupted", "error", "eof"} : ReplNoEval(line)
    \/ \E r \in ApiResults, pushFails \in BOOLEAN : ReplEval(r, pushFails)
    \/ \E r \in ApiResults, failAt \in 0..10, pushFails \in BOOLEAN :
          ReplAnswer(r, failAt, pushFails)

SpecCli == InitCli /\ [][NextCli]_vars

(***************************************************************************)
(* Concurrent host threads inside catch(): its two foreign calls and its   *)
(* return are separate steps, and the interpreter sets faults in between.  *)
(* Fault k is the object at address 10 + k.                                *)
(***************************************************************************)
Fault(k) == Obj(10 + k, IF k % 2 = 0 THEN NonUtf8 ELSE CStr("DivideError"))

FaultId(p) == p.addr - 10

BridgeUnchanged == UNCHANGED <<last, alive>> /\ HostUnchanged

\* The exclusion the interpreter is assumed to provide: nobody touches the
\* register between a catch()'s read and its clear.
NoneReading == \A u \in Threads : pc[u] # "read"

InterpFault ==
    /\ nfaults < MaxFaults
    /\ nfaults' = nfaults + 1
    /\ reg' = Fault(nfaults + 1)
    /\ interleaved' = (interleaved \/ ~NoneReading)
    /\ UNCHANGED <<pc, raw, returned, dropped>>
    /\ BridgeUnchanged

\* let raw = unsafe { jl_exception_occurred() };
CatchRead(t) ==
    /\ pc[t] = "idle"
    /\ raw' = [raw EXCEPT ![t] = jl_exception_occurred]
    /\ pc' = [pc EXCEPT ![t] = "read"]
    /\ interleaved' = (interleaved \/ ~NoneReading)
    /\ UNCHANGED <<reg, nfaults, returned, dropped>>
    /\ BridgeUnchanged

\* catch() without its jl_exception_clear().
CatchClearSkipped(t) ==
    /\ pc[t] = "read"
    /\ pc' = [pc EXCEPT ![t] = "cleared"]
    /\ UNCHANGED <<reg, raw, nfaults, returned, dropped, interleaved>>
    /\ BridgeUnchanged

\* unsafe { jl_exception_clear(); }
CatchClear(t) ==
    /\ pc[t] = "read"
    /\ reg' = Null
    /\ dropped' = IF ~is_null(reg) /\ reg # raw[t]
                  THEN dropped \cup {[f |-> FaultId(reg), why |-> "unread"]}
                  ELSE dropped
    /\ pc' = [pc EXCEPT ![t] = "cleared"]
    /\ UNCHANGED <<raw, nfaults, returned, interleaved>>
    /\ BridgeUnchanged

\* if raw.is_null() { None } else { Exception::with_value(Ref::new(raw)).ok() }
CatchReturn(t) ==
    LET ret == IF is_null(raw[t]) THEN <<>> ELSE ok(with_value(RefNew(raw[t])))
    IN  /\ pc[t] = "cleared"
        /\ returned' = IF ret = <<>> THEN returned
                       ELSE [returned EXCEPT ![FaultId(inner_ref(ret[1]).ptr)] = @ + 1]
        /\ dropped' = IF ret = <<>> /\ ~is_null(raw[t])
                      THEN dropped \cup {[f |-> FaultId(raw[t]), why |-> "unreturned"]}
                      ELSE dropped
        /\ raw' = [raw EXCEPT ![t] = Null]
        /\ pc' = [pc EXCEPT ![t] = "idle"]
        /\ UNCHANGED <<reg, nfaults, interleaved>>
        /\ BridgeUnchanged

NextConc ==
    \/ InterpFault
    \/ \E t \in Threads : CatchRead(t)
    \/ \E t \in Threads : CatchClear(t)
    \/ \E t \in Threads : CatchReturn(t)

SpecConc == Init /\ [][NextConc]_vars

(***************************************************************************)
(* Properties.                                                             *)
(***************************************************************************)
Pending(r) == ~is_null(r)

\* C1: when catch() returns the register is Clear, whatever it held and whatever
\* catch() returned; occurred() reads false on a fresh bridge and right after
\* catch(), and true right after a fault was set.
C1_CatchLeavesRegisterClear ==
    [][ /\ last'.op = "catch" => is_null(reg')
        /\ last'.op = "occurred" /\ last.op \in {"init", "catch"} => ~last'.flag
        /\ last'.op = "occurred" /\ last.op = "fault" => last'.flag ]_vars

C1_Witness == last.op = "catch" /\ Pending(last.regBefore) /\ last.ret = <<>> /\ is_null(reg)

\* C2: a catch() on a Pending register returns exactly one Exception, wrapping
\* the pending fault object, and a catch() right after a catch() returns nothing.
C2_PendingFaultIsReturnedOnce ==
    [][ last'.op = "catch" =>
          /\ Pending(reg) => /\ Len(last'.ret) = 1
                             /\ inner_ref(last'.ret[1]).ptr = reg
          /\ last.op = "catch" => last'.ret = <<>> ]_vars

\* C3: catch() on a Clear register returns nothing and leaves it Clear, and so
\* does every further catch() with no fault in between.
C3_CatchOnClearIsIdempotent ==
    [][ last'.op = "catch" /\ (is_null(reg) \/ last.op = "catch") =>
          last'.ret = <<>> /\ is_null(reg') ]_vars

C3_Witness == last.op = "catch" /\ is_null(last.regBefore) /\ last.ret = <<>> /\ is_null(reg)

\* C4: with_value on a handle whose object reports one of the 24 known type
\* names yields the variant of that name wrapping the same handle; on any other
\* reported name it yields Unknown wrapping the handle, and no error.
C4_ClassificationByExactName ==
    last.op = "with_value" /\ typename(last.handles[1]).ok =>
        LET name == typename(last.handles[1]).val
            hits == { i \in 1..Len(KnownNames) : KnownNames[i] = name }
        IN  /\ Cardinality({ KnownNames[i] : i \in 1..Len(KnownNames) }) = 24
            /\ Len(KnownKinds) = 24
            /\ last.outcome = "Ok"
            /\ Len(last.ret) = 1
            /\ inner_ref(last.ret[1]) = last.handles[1]
            /\ \A i \in hits : last.ret[1].kind = KnownKinds[i]
            /\ hits = {} => last.ret[1].kind = "Unknown"

C4_Witness ==
    /\ last.op = "with_value"
    /\ Len(last.ret) = 1
    /\ last.ret[1].kind = "ReadOnlyMemory"
    /\ inner_ref(last.ret[1]).ptr.addr = 22

C6_OnlyCatchClears ==
    [][ /\ last'.op = "occurred" => last'.flag = Pending(reg) /\ reg' = reg
        /\ Pending(reg) /\ is_null(reg') => last'.op = "catch" ]_vars

C6_Witness == last.op = "occurred" /\ last.flag /\ Pending(reg)

\* The operations of claim C7: throw, rethrow and the raise constructors that
\* take handles.
HandleOps ==
    { "throw", "rethrow", "exception", "type_error", "type_error_rt", "undefined_var_error",
      "bounds_error", "bounds_error_v", "bounds_error_int", "bounds_error_tuple_int",
      "bounds_error_ints" }

\* The raise constructors that take a text.
TextOps ==
    { "error", "error_format", "exception", "exception_format", "too_few_args",
      "too_many_args", "type_error", "type_error_rt" }

RaiseOps ==
    (HandleOps \ {"throw", "rethrow"}) \cup TextOps \cup {"eof_error"}

SomeHandleInvalid == \E i \in DOMAIN last.handles : ~last.handles[i].valid

\* C7: called with an invalidated handle among its arguments, the operation
\* returns HandleError, invokes no native entry point and leaves the register.
C7_InvalidHandleIsHandleError ==
    last.op \in HandleOps /\ SomeHandleInvalid =>
        /\ last.outcome = "HandleError"
        /\ last.calls = <<>>
        /\ reg = last.regBefore

\* The conversion of a text argument was attempted and failed.
ConversionFailed ==
    /\ last.steps \in DOMAIN last.items
    /\ last.items[last.steps].kind = "text"
    /\ last.items[last.steps].t.nul

\* C8: a text constructor whose text cannot be converted reports a recoverable
\* error to its caller (the host goes on) and invokes no native entry point.
C8_BadTextIsRecoverableError ==
    last.op \in TextOps /\ ConversionFailed =>
        /\ alive
        /\ last.outcome \notin {"Ok", "NoReturn", "Panic"}
        /\ last.calls = <<>>

EntryPoint(op) ==
    CASE op \in {"error", "error_format"} -> "jl_error"
      [] op \in {"exception", "exception_format"} -> "jl_exceptionf"
      [] OTHER -> "jl_" \o op

BadItem(it) == IF it.kind = "text" THEN it.t.nul ELSE ~it.h.valid

FirstBad(items) ==
    LET bad == { i \in DOMAIN items : BadItem(items[i]) }
    IN  IF bad = {} THEN 0 ELSE CHOOSE i \in bad : \A j \in bad : i <= j

\* C9: a raise constructor marshals every argument, stops at the first one that
\* fails (HandleError for a handle, the conversion's panic for a text) without a
\* native call, and otherwise makes exactly one native call, to its own entry
\* point, with the pointers and texts in the order and number supplied.
C9_MarshalThenOneNativeCall ==
    last.op \in RaiseOps =>
        LET fb == FirstBad(last.items)
        IN  /\ Len(last.items) = Len(last.texts) + Len(last.handles)
            /\ \A i \in DOMAIN last.texts : TItem(last.texts[i]) \in
                                              { last.items[j] : j \in DOMAIN last.items }
            /\ \A i \in DOMAIN last.handles : HItem(last.handles[i]) \in
                                              { last.items[j] : j \in DOMAIN last.items }
            /\ fb # 0 => /\ last.steps = fb
                         /\ last.calls = <<>>
                         /\ reg = last.regBefore
                         /\ last.outcome =
                              IF last.items[fb].kind = "text" THEN "Panic" ELSE "HandleError"
            /\ fb = 0 => /\ last.steps = Len(last.items)
                         /\ last.outcome = "NoReturn"
                         /\ Len(last.calls) = 1
                         /\ last.calls[1].fn = EntryPoint(last.op)
                         /\ last.calls[1].ptrs =
                              [i \in 1..Len(last.handles) |-> last.handles[i].ptr]
                         /\ last.calls[1].strs =
                              [i \in 1..Len(last.texts) |-> CStr(last.texts[i].text)]
                         /\ last.op = "bounds_error_v" =>
                              last.calls[1].n = Len(last.handles) - 1
                         /\ last.op = "bounds_error_tuple_int" =>
                              last.calls[1].n = Len(last.handles)
                         /\ last.op = "bounds_error_ints" =>
                              /\ last.calls[1].n = Len(last.ints)
                              /\ last.calls[1].ints = last.ints

C9_Witness ==
    /\ last.op = "bounds_error_v"
    /\ Len(last.calls) = 1
    /\ Len(last.handles) = 3
    /\ last.handles[2].ptr # last.handles[3].ptr

\* C10: throw (rethrow) locks the wrapped handle and hands the locked pointer
\* to jl_throw (jl_rethrow_other), which does not return; the caller receives
\* nothing but the HandleError of a failed lock, and never Ok(()).
C10_ThrowNeverReturnsOk ==
    last.op \in {"throw", "rethrow"} =>
        LET h == last.handles[1]
            fn == IF last.op = "throw" THEN "jl_throw" ELSE "jl_rethrow_other"
        IN  /\ last.outcome # "Ok"
            /\ h.valid => /\ last.outcome = "NoReturn"
                          /\ last.calls = <<Call(fn, <<h.ptr>>, <<>>, <<>>, 0, 0)>>
            /\ ~h.valid => /\ last.outcome = "HandleError"
                           /\ last.calls = <<>>

C10_Witness ==
    /\ last.op = "rethrow"
    /\ last.outcome = "NoReturn"
    /\ reg = last.handles[1].ptr

\* C14: too_few_args and too_many_args hand the native entry point the count
\* the host supplied: the i32 of the call is that count, for every usize.
C14_ArityCountIsPassedExactly ==
    last.op \in {"too_few_args", "too_many_args"} /\ Len(last.calls) = 1 =>
        /\ last.calls[1].i32 >= 0
        /\ U(0, last.calls[1].i32) = last.ints[1]

\* C13: description() returns a non-empty string for each of the 25 kinds; the
\* string is the kind's entry of the table whatever the wrapped handle and the
\* register are, and so the same as on the call before for the same kind.
C13_DescriptionDependsOnKindOnly ==
    [][ last'.op = "description" =>
          /\ Cardinality({ e.kind : e \in DescribeExceptions }) = 25
          /\ last'.str # ""
          /\ last'.str = description_of(last'.items[1].kind)
          /\ last.op = "description" /\ last.items[1].kind = last'.items[1].kind =>
                last'.str = last.str ]_vars

C13_Witness ==
    /\ last.op = "description"
    /\ last.items[1].kind = "Unknown"
    /\ ~inner_ref(last.items[1]).valid
    /\ Pending(reg)
    /\ last.str = "unknown exception"

\* C12: at any time after its construction, whatever inner_ref, inner_mut,
\* clone, throw and rethrow were called on it, an Exception has the kind it was
\* constructed with, its debug rendering is the type name that kind was
\* classified from, and its display rendering is its debug rendering.
C12_RenderingIsClassifiedTypeName ==
    held # <<>> =>
        /\ held[1].kind = held[2].kind
        /\ last.op \in {"debug", "display"} =>
              /\ last.outcome = "Ok"
              /\ last.str = typename(inner_ref(held[2])).val
              /\ Ok(last.str) = fmt_debug(held[1])

\* The steps of main() and of the REPL that consume a Result of the
\* higher-level API.
CliOps == {"dlinclude", "eval", "print", "load", "initrepl", "repl"}

\* C11: whenever evaluation or loading returned UnhandledException, the step
\* wrote the Exception's display and description text for the user, the host
\* did not panic, and main() went on to what comes next.
C11_UnhandledExceptionIsRenderedNotFatal ==
    last.op \in CliOps /\ last.outcome = "UnhandledException" =>
        LET e == last.items[1].ex
        IN  /\ alive
            /\ \E i \in DOMAIN out :
                  out[i] = <<"Exception", fmt_debug(e).val, description_of(e.kind)>>
            /\ mainpc = IF last.op = "repl" THEN "interactive"
                        ELSE IF last.op = "initrepl" THEN "interactive" ELSE Phase(todo)

\* The value a binding counts as: `nothing` when the global is unset.
Bound(b) == IF b = <<>> THEN nothing ELSE b[1]

\* C15: a call of set_history(ret) that returns Ok leaves ans = ret and each
\* ans<k> at what ans<k-1> held before the call (nothing if it was unset), so
\* that after n successful calls in a row ans<k>, k < n, is the result of the
\* (k+1)-th most recent call; a call that returns Err(i) has bound the
\* positions below i so, and left the positions from i on as they were.
C15_HistoryIsShiftRegister ==
    [][ hist'.n = hist.n + 1 =>
          LET ret == last'.ret[1]
              res == hist'.res[1]
              upto == IF res.ok THEN 10 ELSE res.val
          IN  /\ \A k \in Positions : k < upto =>
                    globals'[k] = <<IF k = 0 THEN ret ELSE Bound(globals[k - 1])>>
              /\ \A k \in Positions : k >= upto => globals'[k] = globals[k]
              /\ \A k \in Positions : k < hist'.streak => globals'[k] = <<hist'.n - k>> ]_vars

C15_Witness ==
    /\ hist.streak = 10
    /\ hist.fails = 1
    /\ hist.res = <<Ok(0)>>
    /\ globals[9] = <<hist.n - 9>>
    /\ globals[0] = <<hist.n>>

====
